---- MODULE Spec2Model ----
(***************************************************************************)
(* StableContainer[N] and Profile[B] of remerkleable/stable_container.py:  *)
(* the backing tree, field get/set, and the SSZ codec.                     *)
(*                                                                         *)
(* A node of the backing tree is a tuple: <<"L", c>> is a 32-byte chunk    *)
(* holding the little-endian integer c, <<"P", l, r>> is a pair node.      *)
(* A byte string is a sequence of integers in 0..255.  Python's None is    *)
(* the tuple <<"None">>.                                                   *)
(***************************************************************************)
EXTENDS Integers, Sequences, FiniteSets, TLC

VARIABLES cls, val, base, stream, dec, last

vars == <<cls, val, base, stream, dec, last>>

\* ---------------------------------------------------------------- bounds
\* list elements are drawn from 0..MaxElem
MaxElem == 1
\* uint16 samples are 0 and 256*k + k + 1 for k in 1..MaxU16
MaxU16 == 1
\* a caller may hand deserialize a stream with one bit 0..MaxTamperBit of one byte flipped
MaxTamperBit == 3

\* ------------------------------------------------------- program constants
OFFSET_BYTE_LENGTH == 4
RIGHT_GINDEX == 3

NoneVal == <<"None">>

\* ------------------------------------------------------------- arithmetic
RECURSIVE Pow(_, _)
Pow(b, e) == IF e = 0 THEN 1 ELSE b * Pow(b, e - 1)

RECURSIVE BitLength(_)
BitLength(k) == IF k = 0 THEN 0 ELSE 1 + BitLength(k \div 2)

\* tree.get_depth: the depth of the smallest perfect tree with elem_count leaves
get_depth(elem_count) == BitLength(elem_count - 1)

Min(a, b) == IF a < b THEN a ELSE b

\* little-endian bytes of an unsigned integer, and back
EncodeLE(v, nbytes) == [i \in 1..nbytes |-> (v \div Pow(256, i - 1)) % 256]

RECURSIVE DecodeLE(_)
DecodeLE(bytes) ==
    IF Len(bytes) = 0 THEN 0 ELSE bytes[1] + 256 * DecodeLE(Tail(bytes))

\* uint32 offsets of complex.encode_offset / decode_offset
encode_offset(offset) == EncodeLE(offset, OFFSET_BYTE_LENGTH)
decode_offset(bytes) == DecodeLE(bytes)

\* ------------------------------------------------------------------- tree
Leaf(c) == <<"L", c>>
PairNode(l, r) == <<"P", l, r>>
IsPair(node) == node[1] = "P"
get_left(node) == node[2]
get_right(node) == node[3]

RECURSIVE zero_node(_)
zero_node(depth) ==
    IF depth = 0 THEN Leaf(0)
    ELSE PairNode(zero_node(depth - 1), zero_node(depth - 1))

\* Node.getter(gindex): gindex 1 is the node itself, 2g the left child of g
RECURSIVE getter(_, _)
getter(node, gindex) ==
    IF gindex = 1 THEN node
    ELSE LET parent == getter(node, gindex \div 2)
         IN IF gindex % 2 = 0 THEN get_left(parent) ELSE get_right(parent)

rebind_left(node, l) == PairNode(l, get_right(node))
rebind_right(node, r) == PairNode(get_left(node), r)

\* Node.setter(gindex)(new): the tree with the node at gindex replaced
RECURSIVE setter(_, _, _)
setter(node, gindex, new) ==
    IF gindex = 1 THEN new
    ELSE LET parent == getter(node, gindex \div 2)
             np == IF gindex % 2 = 0 THEN rebind_left(parent, new)
                   ELSE rebind_right(parent, new)
         IN setter(node, gindex \div 2, np)

\* tree.subtree_fill_to_contents: nodes as the first leaves of a perfect tree of depth
RECURSIVE subtree_fill_to_contents(_, _)
subtree_fill_to_contents(nodes, depth) ==
    IF Len(nodes) = 0 THEN zero_node(depth)
    ELSE IF depth = 0 THEN nodes[1]
    ELSE LET half == Pow(2, depth - 1)
         IN PairNode(
              subtree_fill_to_contents(SubSeq(nodes, 1, Min(half, Len(nodes))), depth - 1),
              subtree_fill_to_contents(SubSeq(nodes, half + 1, Len(nodes)), depth - 1))

\* -------------------------------------------------------------- Bitvector
\* Bitvector[K] with K <= 256 is one chunk; bit i is bit i of its integer
BitvectorByteLength(K) == (K + 7) \div 8
BitGet(bits, i) == (bits \div Pow(2, i)) % 2 = 1
BitSet(bits, i, b) ==
    IF BitGet(bits, i) = b THEN bits
    ELSE IF b THEN bits + Pow(2, i) ELSE bits - Pow(2, i)
BitvectorSerialize(K, bits) == EncodeLE(bits, BitvectorByteLength(K))
\* the decoded bits, or -1 when a bit at or beyond K is set
BitvectorDeserialize(K, bytes) ==
    LET bits == DecodeLE(bytes) IN IF bits >= Pow(2, K) THEN -1 ELSE bits

\* ------------------------------------------------------------ field types
\* A field type is [kind, n]: a uint of n bytes, or a List[uint8, n] of at most n bytes.
Uint8 == [kind |-> "uint", n |-> 1]
Uint16 == [kind |-> "uint", n |-> 2]
ByteList1 == [kind |-> "list", n |-> 1]
ByteList2 == [kind |-> "list", n |-> 2]

is_fixed_byte_length(ftyp) == ftyp.kind = "uint"
type_byte_length(ftyp) == ftyp.n
min_byte_length(ftyp) == IF ftyp.kind = "uint" THEN ftyp.n ELSE 0
max_byte_length(ftyp) == ftyp.n

\* the values a caller passes for a field of the type
SeqsUpTo(S, n) == UNION {[1..k -> S] : k \in 0..n}
TypeValues(ftyp) ==
    IF ftyp.kind = "list" THEN SeqsUpTo(0..MaxElem, ftyp.n)
    ELSE IF ftyp.n = 1 THEN 0..MaxElem
    ELSE {0} \cup {256 * k + k + 1 : k \in 1..MaxU16}

\* ftyp.coerce_view(value).get_backing(): a uint is its chunk; a List[uint8, n] with
\* n <= 32 is PairNode(chunk of the packed bytes, chunk of the length)
coerce_view(ftyp, value) ==
    IF ftyp.kind = "uint" THEN Leaf(value)
    ELSE PairNode(Leaf(DecodeLE(value)), Leaf(Len(value)))

\* v.serialize(stream) of the view over a field's node: the bytes it writes
ViewSerialize(ftyp, fnode) ==
    IF ftyp.kind = "uint" THEN EncodeLE(fnode[2], ftyp.n)
    ELSE EncodeLE(get_left(fnode)[2], get_right(fnode)[2])

\* ftyp.deserialize(stream, fsize): the node of the value read from the bytes
ViewDeserialize(ftyp, bytes) ==
    IF ftyp.kind = "uint" THEN Leaf(DecodeLE(bytes))
    ELSE PairNode(Leaf(DecodeLE(bytes)), Leaf(Len(bytes)))

\* ---------------------------------------------------------------- classes
\* StableContainer[N] subclasses, each with its annotations in declaration order
StableClasses == <<
    [N |-> 2, fields |-> <<[key |-> "a", typ |-> ByteList2]>>],
    [N |-> 2, fields |-> <<[key |-> "a", typ |-> ByteList2],
                           [key |-> "b", typ |-> Uint16]>>],
    [N |-> 4, fields |-> <<[key |-> "a", typ |-> Uint16],
                           [key |-> "b", typ |-> ByteList1]>>],
    [N |-> 4, fields |-> <<[key |-> "a", typ |-> Uint16],
                           [key |-> "b", typ |-> ByteList1],
                           [key |-> "c", typ |-> ByteList1]>>],
    [N |-> 9, fields |-> <<[key |-> "a", typ |-> Uint8],
                           [key |-> "b", typ |-> ByteList1]>>] >>

\* Profile[B] subclasses: B is the base's place in StableClasses
ProfileClasses == <<
    [B |-> 4, fields |-> <<[key |-> "a", opt |-> FALSE], [key |-> "b", opt |-> TRUE]>>],
    [B |-> 4, fields |-> <<[key |-> "c", opt |-> TRUE], [key |-> "b", opt |-> FALSE],
                           [key |-> "a", opt |-> TRUE]>>],
    [B |-> 4, fields |-> <<[key |-> "b", opt |-> FALSE], [key |-> "a", opt |-> FALSE]>>],
    [B |-> 4, fields |-> <<[key |-> "c", opt |-> FALSE], [key |-> "b", opt |-> TRUE]>>],
    [B |-> 4, fields |-> <<[key |-> "a", opt |-> TRUE], [key |-> "b", opt |-> TRUE]>>] >>

\* a key no class declares
UnknownKey == "zz"

\* d[key] of an ordered dict kept as a sequence of entries: its place, 0 for KeyError
RECURSIVE KeyIndexFrom(_, _, _)
KeyIndexFrom(entries, key, i) ==
    IF i > Len(entries) THEN 0
    ELSE IF entries[i].key = key THEN i
    ELSE KeyIndexFrom(entries, key, i + 1)
KeyIndex(entries, key) == KeyIndexFrom(entries, key, 1)

\* StableContainerView.__init_subclass__: findex is the declaration position
field_indices(S) ==
    [p \in 1..Len(S.fields) |->
        [key |-> S.fields[p].key, findex |-> p - 1, ftyp |-> S.fields[p].typ]]

\* ProfileView.__init_subclass__: findex and ftyp are those of the base's field
ProfileBaseIndexAsDeclared(P, p) == p - 1
ProfileBaseIndex(P, p) ==
    LET bidx == field_indices(StableClasses[P.B])
    IN bidx[KeyIndex(bidx, P.fields[p].key)].findex

Profile_field_indices(P) ==
    LET bidx == field_indices(StableClasses[P.B])
    IN [p \in 1..Len(P.fields) |->
          [key |-> P.fields[p].key,
           findex |-> ProfileBaseIndex(P, p),
           ftyp |-> bidx[KeyIndex(bidx, P.fields[p].key)].ftyp,
           fopt |-> P.fields[p].opt]]

Profile_o(P) == Cardinality({p \in 1..Len(P.fields) : P.fields[p].opt})

Keys(entries) == {entries[p].key : p \in 1..Len(entries)}

\* ------------------------------------------------------- construction, get, set
\* The result of a call that may raise: the backing it yields, or the error.
Ok(backing) == [ok |-> TRUE, err |-> "", backing |-> backing]
Raise(err) == [ok |-> FALSE, err |-> err, backing |-> NoneVal]
\* a method of a value raises: the backing the value is left with
RaiseOn(err, backing) == [ok |-> FALSE, err |-> err, backing |-> backing]

\* kwargs is a function from the passed keys to a view's node or NoneVal
KwGet(kwargs, fkey) == IF fkey \in DOMAIN kwargs THEN kwargs[fkey] ELSE NoneVal

\* the loop of StableContainer.__new__ over active_fields.set(findex, ...)
RECURSIVE NewActiveFields(_, _, _, _)
NewActiveFields(idx, kwargs, p, bits) ==
    IF p > Len(idx) THEN bits
    ELSE NewActiveFields(idx, kwargs, p + 1,
            BitSet(bits, idx[p].findex, KwGet(kwargs, idx[p].key) # NoneVal))

StableContainer_new(S, kwargs) ==
    LET idx == field_indices(S)
        input_nodes == [p \in 1..Len(idx) |->
            IF KwGet(kwargs, idx[p].key) = NoneVal THEN zero_node(0)
            ELSE KwGet(kwargs, idx[p].key)]
        active_fields == NewActiveFields(idx, kwargs, 1, 0)
    IN IF (DOMAIN kwargs) \ Keys(idx) # {} THEN Raise("AttributeError")
       ELSE Ok(PairNode(subtree_fill_to_contents(input_nodes, get_depth(S.N)),
                        Leaf(active_fields)))

Profile_new(P, kwargs) ==
    LET idx == Profile_field_indices(P)
        missing == {q \in 1..Len(idx) : idx[q].key \notin DOMAIN kwargs /\ ~idx[q].fopt}
        extra_kw == (DOMAIN kwargs) \ Keys(idx)
    IN IF missing # {} THEN Raise("AttributeError")
       ELSE IF extra_kw # {} THEN Raise("AttributeError")
       ELSE StableContainer_new(StableClasses[P.B], kwargs)

active_fields(backing) == get_right(backing)[2]

stable_get(backing, findex, ftyp, n) ==
    IF ~BitGet(active_fields(backing), findex) THEN NoneVal
    ELSE getter(get_left(backing), Pow(2, get_depth(n)) + findex)

\* stable_set without the rewrite of the leaf when None is assigned
stable_set_keeps_leaf(backing, findex, ftyp, n, value) ==
    LET bits == BitSet(active_fields(backing), findex, value # NoneVal)
        b1 == rebind_right(backing, Leaf(bits))
    IN IF value = NoneVal THEN b1
       ELSE rebind_left(b1, setter(get_left(b1), Pow(2, get_depth(n)) + findex, value))

\* stable_set that builds the bitvector anew instead of from self.active_fields()
stable_set_fresh_bits(backing, findex, ftyp, n, value) ==
    LET bits == BitSet(0, findex, value # NoneVal)
        b1 == rebind_right(backing, Leaf(bits))
        fnode == IF value # NoneVal THEN value ELSE zero_node(0)
        next_data == setter(get_left(b1), Pow(2, get_depth(n)) + findex, fnode)
    IN rebind_left(b1, next_data)

\* value is NoneVal or the node of a view of ftyp
stable_set(backing, findex, ftyp, n, value) ==
    LET bits == BitSet(active_fields(backing), findex, value # NoneVal)
        b1 == rebind_right(backing, Leaf(bits))
        fnode == IF value # NoneVal THEN value ELSE zero_node(0)
        next_data == setter(get_left(b1), Pow(2, get_depth(n)) + findex, fnode)
    IN rebind_left(b1, next_data)

\* StableContainer.__getattr__: [ok, err, backing] with backing the view's node or NoneVal
StableContainer_getattr(S, backing, item) ==
    LET idx == field_indices(S)
        q == KeyIndex(idx, item)
    IN IF q = 0 THEN Raise("AttributeError")
       ELSE Ok(stable_get(backing, idx[q].findex, idx[q].ftyp, S.N))

\* __setattr__: [ok, err, backing] with backing the value's backing after the call
StableContainer_setattr(S, backing, key, value) ==
    LET idx == field_indices(S)
        q == KeyIndex(idx, key)
    IN IF q = 0 THEN RaiseOn("AttributeError", backing)
       ELSE Ok(stable_set(backing, idx[q].findex, idx[q].ftyp, S.N, value))

Profile_getattr(P, backing, item) ==
    LET idx == Profile_field_indices(P)
        q == KeyIndex(idx, item)
        value == stable_get(backing, idx[q].findex, idx[q].ftyp, StableClasses[P.B].N)
    IN IF q = 0 THEN Raise("AttributeError")
       ELSE IF ~(value # NoneVal \/ idx[q].fopt) THEN Raise("AssertionError")
       ELSE Ok(value)

\* Profile.__setattr__ with the check for None made after stable_set
Profile_setattr_checks_after_set(P, backing, key, value) ==
    LET idx == Profile_field_indices(P)
        q == KeyIndex(idx, key)
        set == stable_set(backing, idx[q].findex, idx[q].ftyp, StableClasses[P.B].N, value)
    IN IF q = 0 THEN RaiseOn("AttributeError", backing)
       ELSE IF value = NoneVal /\ ~idx[q].fopt THEN RaiseOn("ValueError", set)
       ELSE Ok(set)

Profile_setattr(P, backing, key, value) ==
    LET idx == Profile_field_indices(P)
        q == KeyIndex(idx, key)
    IN IF q = 0 THEN RaiseOn("AttributeError", backing)
       ELSE IF value = NoneVal /\ ~idx[q].fopt THEN RaiseOn("ValueError", backing)
       ELSE Ok(stable_set(backing, idx[q].findex, idx[q].ftyp, StableClasses[P.B].N, value))

\* ------------------------------------------------------------ size reflection
RECURSIVE SumOver(_, _, _)
SumOver(f, lo, hi) == IF lo > hi THEN 0 ELSE f[lo] + SumOver(f, lo + 1, hi)

StableContainer_min_byte_length(S) == BitvectorByteLength(S.N)

StableContainer_max_byte_length(S) ==
    LET idx == field_indices(S)
        part == [q \in 1..Len(idx) |->
            (IF ~is_fixed_byte_length(idx[q].ftyp) THEN OFFSET_BYTE_LENGTH ELSE 0)
            + max_byte_length(idx[q].ftyp)]
    IN BitvectorByteLength(S.N) + SumOver(part, 1, Len(idx))

Profile_min_byte_length(P) ==
    LET idx == Profile_field_indices(P)
        part == [q \in 1..Len(idx) |->
            IF idx[q].fopt THEN 0
            ELSE (IF ~is_fixed_byte_length(idx[q].ftyp) THEN OFFSET_BYTE_LENGTH ELSE 0)
                 + min_byte_length(idx[q].ftyp)]
    IN (IF Profile_o(P) > 0 THEN BitvectorByteLength(Profile_o(P)) ELSE 0)
       + SumOver(part, 1, Len(idx))

Profile_max_byte_length(P) ==
    LET idx == Profile_field_indices(P)
        part == [q \in 1..Len(idx) |->
            (IF ~is_fixed_byte_length(idx[q].ftyp) THEN OFFSET_BYTE_LENGTH ELSE 0)
            + max_byte_length(idx[q].ftyp)]
    IN (IF Profile_o(P) > 0 THEN BitvectorByteLength(Profile_o(P)) ELSE 0)
       + SumOver(part, 1, Len(idx))

\* ------------------------------------------------------------ gindex binding
ActiveFieldsKey == "__active_fields__"

StableContainer_key_to_static_gindex_unshifted(S, key) ==
    IF key = ActiveFieldsKey THEN RIGHT_GINDEX
    ELSE LET idx == field_indices(S)
         IN Pow(2, get_depth(S.N)) + idx[KeyIndex(idx, key)].findex

StableContainer_key_to_static_gindex(S, key) ==
    IF key = ActiveFieldsKey THEN RIGHT_GINDEX
    ELSE LET idx == field_indices(S)
         IN Pow(2, get_depth(S.N)) * 2 + idx[KeyIndex(idx, key)].findex

\* ------------------------------------------------------------------ serialize
\* The first loop of serialize: the fixed-section size and whether a variable-length
\* field was met, over the fields q with counted[q].
RECURSIVE SerializeCount(_, _, _, _)
SerializeCount(idx, counted, q, acc) ==
    IF q > Len(idx) THEN acc
    ELSE IF ~counted[q] THEN SerializeCount(idx, counted, q + 1, acc)
    ELSE IF is_fixed_byte_length(idx[q].ftyp)
         THEN SerializeCount(idx, counted, q + 1,
                [acc EXCEPT !.n = @ + type_byte_length(idx[q].ftyp)])
    ELSE SerializeCount(idx, counted, q + 1,
                [n |-> acc.n + OFFSET_BYTE_LENGTH, has_dyn |-> TRUE])

\* The second loop of serialize over the active fields: acc.fixed is what it writes
\* to stream, acc.dyn what it writes to temp_dyn_stream, acc.n is num_data_bytes.
RECURSIVE SerializeWrite(_, _, _, _, _)
SerializeWrite(idx, backing, n, q, acc) ==
    IF q > Len(idx) THEN acc
    ELSE IF ~BitGet(active_fields(backing), idx[q].findex)
         THEN SerializeWrite(idx, backing, n, q + 1, acc)
    ELSE LET fnode == getter(get_left(backing), Pow(2, get_depth(n)) + idx[q].findex)
             fbytes == ViewSerialize(idx[q].ftyp, fnode)
         IN IF is_fixed_byte_length(idx[q].ftyp)
            THEN SerializeWrite(idx, backing, n, q + 1,
                    [acc EXCEPT !.fixed = @ \o fbytes])
            ELSE SerializeWrite(idx, backing, n, q + 1,
                    [fixed |-> acc.fixed \o encode_offset(acc.n),
                     dyn |-> acc.dyn \o fbytes,
                     n |-> acc.n + Len(fbytes)])

\* StableContainer.serialize with the offsets counted from the start of the stream
StableContainer_serialize_offsets_from_stream_start(S, backing) ==
    LET idx == field_indices(S)
        prefix == BitvectorSerialize(S.N, active_fields(backing))
        counted == [q \in 1..Len(idx) |-> BitGet(active_fields(backing), idx[q].findex)]
        first == SerializeCount(idx, counted, 1, [n |-> Len(prefix), has_dyn |-> FALSE])
        second == SerializeWrite(idx, backing, S.N, 1,
                     [fixed |-> <<>>, dyn |-> <<>>, n |-> first.n])
    IN [bytes |-> prefix \o second.fixed \o (IF first.has_dyn THEN second.dyn ELSE <<>>),
        ret |-> second.n]

\* StableContainer.serialize: the bytes written to stream and the integer returned
StableContainer_serialize(S, backing) ==
    LET idx == field_indices(S)
        prefix == BitvectorSerialize(S.N, active_fields(backing))
        counted == [q \in 1..Len(idx) |-> BitGet(active_fields(backing), idx[q].findex)]
        first == SerializeCount(idx, counted, 1, [n |-> 0, has_dyn |-> FALSE])
        second == SerializeWrite(idx, backing, S.N, 1,
                     [fixed |-> <<>>, dyn |-> <<>>, n |-> first.n])
    IN [bytes |-> prefix \o second.fixed \o (IF first.has_dyn THEN second.dyn ELSE <<>>),
        ret |-> Len(prefix) + second.n]

\* the number of Optional[T] fields declared before place q
OIndex(idx, q) == Cardinality({r \in 1..(q - 1) : idx[r].fopt})

\* Profile.optional_fields: bit oindex is the active bit of the oindex-th optional field
RECURSIVE OptionalFieldsFrom(_, _, _, _)
OptionalFieldsFrom(idx, backing, q, bits) ==
    IF q > Len(idx) THEN bits
    ELSE IF idx[q].fopt
         THEN OptionalFieldsFrom(idx, backing, q + 1,
                BitSet(bits, OIndex(idx, q), BitGet(active_fields(backing), idx[q].findex)))
    ELSE OptionalFieldsFrom(idx, backing, q + 1, bits)

\* optional_fields with oindex counted from one
optional_fields_oindex_from_one(P, backing) ==
    2 * OptionalFieldsFrom(Profile_field_indices(P), backing, 1, 0)

optional_fields(P, backing) == OptionalFieldsFrom(Profile_field_indices(P), backing, 1, 0)

\* temp_dyn_stream.read(size): at most size bytes
StreamRead(bytes, size) == SubSeq(bytes, 1, Min(Len(bytes), size))

\* Profile.serialize with the offsets counted from the start of the stream
Profile_serialize_offsets_from_stream_start(P, backing) ==
    LET idx == Profile_field_indices(P)
        o == Profile_o(P)
        opt == IF o > 0 THEN optional_fields(P, backing) ELSE 0
        prefix == IF o > 0 THEN BitvectorSerialize(o, opt) ELSE <<>>
        counted == [q \in 1..Len(idx) |-> ~idx[q].fopt \/ BitGet(opt, OIndex(idx, q))]
        first == SerializeCount(idx, counted, 1, [n |-> Len(prefix), has_dyn |-> FALSE])
        second == SerializeWrite(idx, backing, StableClasses[P.B].N, 1,
                     [fixed |-> <<>>, dyn |-> <<>>, n |-> first.n])
    IN [bytes |-> prefix \o second.fixed
                  \o (IF first.has_dyn THEN StreamRead(second.dyn, second.n) ELSE <<>>),
        ret |-> second.n]

\* Profile.serialize (over a StableContainer base)
Profile_serialize(P, backing) ==
    LET idx == Profile_field_indices(P)
        o == Profile_o(P)
        opt == IF o > 0 THEN optional_fields(P, backing) ELSE 0
        prefix == IF o > 0 THEN BitvectorSerialize(o, opt) ELSE <<>>
        counted == [q \in 1..Len(idx) |-> ~idx[q].fopt \/ BitGet(opt, OIndex(idx, q))]
        first == SerializeCount(idx, counted, 1, [n |-> 0, has_dyn |-> FALSE])
        second == SerializeWrite(idx, backing, StableClasses[P.B].N, 1,
                     [fixed |-> <<>>, dyn |-> <<>>, n |-> first.n])
    IN [bytes |-> prefix \o second.fixed
                  \o (IF first.has_dyn THEN StreamRead(second.dyn, second.n) ELSE <<>>),
        ret |-> Len(prefix) + second.n]

\* ---------------------------------------------------------------- deserialize
\* stream.read(size) at position pos (bytes consumed so far); Len < size at the end
ReadAt(bytes, pos, size) == SubSeq(bytes, pos + 1, Min(Len(bytes), pos + size))

\* The first loop of deserialize over the fields q with present[q]: fixed-length
\* fields are read, offsets are recorded. acc = [pos, fv, dyn, fixed_size, ok];
\* absent[q] fields get field_values[fkey] = None when none_absent (Profile).
RECURSIVE DeserializeFixed(_, _, _, _, _, _)
DeserializeFixed(idx, present, none_absent, bytes, q, acc) ==
    IF q > Len(idx) \/ ~acc.ok THEN acc
    ELSE IF ~present[q]
         THEN DeserializeFixed(idx, present, none_absent, bytes, q + 1,
                IF none_absent THEN [acc EXCEPT !.fv = @ @@ (idx[q].key :> NoneVal)]
                ELSE acc)
    ELSE IF is_fixed_byte_length(idx[q].ftyp)
         THEN LET fsize == type_byte_length(idx[q].ftyp)
                  got == ReadAt(bytes, acc.pos, fsize)
              IN IF Len(got) < fsize THEN [acc EXCEPT !.ok = FALSE]
                 ELSE DeserializeFixed(idx, present, none_absent, bytes, q + 1,
                        [acc EXCEPT !.pos = @ + fsize,
                                    !.fv = @ @@ (idx[q].key :> ViewDeserialize(idx[q].ftyp, got)),
                                    !.fixed_size = @ + fsize])
    ELSE LET got == ReadAt(bytes, acc.pos, OFFSET_BYTE_LENGTH)
         IN IF Len(got) < OFFSET_BYTE_LENGTH THEN [acc EXCEPT !.ok = FALSE]
            ELSE DeserializeFixed(idx, present, none_absent, bytes, q + 1,
                    [acc EXCEPT !.pos = @ + OFFSET_BYTE_LENGTH,
                                !.dyn = Append(@, [key |-> idx[q].key, typ |-> idx[q].ftyp,
                                                   offset |-> decode_offset(got)]),
                                !.fixed_size = @ + OFFSET_BYTE_LENGTH])

\* whether the first offset passes the check against fixed_size
FirstOffsetOkStrict(offset, fixed_size) == offset = fixed_size
FirstOffsetOk(offset, fixed_size) == ~(offset < fixed_size)

\* The loop over dyn_fields: acc = [pos, fv, ok]
RECURSIVE DeserializeDyn(_, _, _, _, _)
DeserializeDyn(dyn, bytes, scope, i, acc) ==
    IF i > Len(dyn) \/ ~acc.ok THEN acc
    ELSE LET foffset == dyn[i].offset
             next_offset == IF i + 1 <= Len(dyn) THEN dyn[i + 1].offset ELSE scope
             fsize == next_offset - foffset
             got == ReadAt(bytes, acc.pos, fsize)
         IN IF foffset > next_offset THEN [acc EXCEPT !.ok = FALSE]
            ELSE IF ~(min_byte_length(dyn[i].typ) <= fsize
                      /\ fsize <= max_byte_length(dyn[i].typ))
                 THEN [acc EXCEPT !.ok = FALSE]
            ELSE IF Len(got) < fsize THEN [acc EXCEPT !.ok = FALSE]
            ELSE DeserializeDyn(dyn, bytes, scope, i + 1,
                    [acc EXCEPT !.pos = @ + fsize,
                                !.fv = @ @@ (dyn[i].key :> ViewDeserialize(dyn[i].typ, got))])

\* from `if len(dyn_fields) > 0` on: the field values, or ok = FALSE
DeserializeRest(fixed, bytes, scope) ==
    IF ~fixed.ok THEN [ok |-> FALSE, fv |-> fixed.fv]
    ELSE IF Len(fixed.dyn) = 0 THEN [ok |-> TRUE, fv |-> fixed.fv]
    ELSE IF ~FirstOffsetOk(fixed.dyn[1].offset, fixed.fixed_size)
         THEN [ok |-> FALSE, fv |-> fixed.fv]
    ELSE LET r == DeserializeDyn(fixed.dyn, bytes, scope, 1,
                    [pos |-> fixed.pos, fv |-> fixed.fv, ok |-> TRUE])
         IN [ok |-> r.ok, fv |-> r.fv]

EmptyKwargs == [k \in {} |-> NoneVal]

\* the unknown-field loop started one index early
HasUnknownField_off_by_one(S, bits) ==
    \E findex \in (Len(S.fields) - 1)..(S.N - 1) : BitGet(bits, findex)

\* the unknown-field loop left out
NoUnknownFieldCheck(S, bits) == FALSE

\* an active bit at an index no field is declared at
HasUnknownField(S, bits) == \E findex \in Len(S.fields)..(S.N - 1) : BitGet(bits, findex)

\* StableContainer.deserialize of the stream holding bytes, with the given scope
StableContainer_deserialize(S, bytes, scope) ==
    LET idx == field_indices(S)
        num_prefix_bytes == BitvectorByteLength(S.N)
        got == ReadAt(bytes, 0, num_prefix_bytes)
        bits == BitvectorDeserialize(S.N, got)
        present == [q \in 1..Len(idx) |-> BitGet(bits, idx[q].findex)]
        fixed == DeserializeFixed(idx, present, FALSE, bytes, 1,
                    [pos |-> num_prefix_bytes, fv |-> EmptyKwargs, dyn |-> <<>>,
                     fixed_size |-> 0, ok |-> TRUE])
        rest == DeserializeRest(fixed, bytes, scope - num_prefix_bytes)
    IN IF scope < num_prefix_bytes THEN Raise("ValueError")
       ELSE IF Len(got) < num_prefix_bytes \/ bits < 0 THEN Raise("Exception")
       ELSE IF HasUnknownField(S, bits) THEN Raise("Exception")
       ELSE IF ~rest.ok THEN Raise("Exception")
       ELSE StableContainer_new(S, rest.fv)

\* Profile.deserialize without `scope = scope - num_prefix_bytes`
Profile_deserialize_scope_with_prefix(P, bytes, scope) ==
    LET idx == Profile_field_indices(P)
        o == Profile_o(P)
        num_prefix_bytes == IF o > 0 THEN BitvectorByteLength(o) ELSE 0
        got == ReadAt(bytes, 0, num_prefix_bytes)
        bits == IF o > 0 THEN BitvectorDeserialize(o, got) ELSE 0
        present == [q \in 1..Len(idx) |-> ~idx[q].fopt \/ BitGet(bits, OIndex(idx, q))]
        fixed == DeserializeFixed(idx, present, TRUE, bytes, 1,
                    [pos |-> num_prefix_bytes, fv |-> EmptyKwargs, dyn |-> <<>>,
                     fixed_size |-> 0, ok |-> TRUE])
        rest == DeserializeRest(fixed, bytes, scope)
    IN IF o > 0 /\ scope < num_prefix_bytes THEN Raise("ValueError")
       ELSE IF Len(got) < num_prefix_bytes \/ bits < 0 THEN Raise("Exception")
       ELSE IF ~rest.ok THEN Raise("Exception")
       ELSE Profile_new(P, rest.fv)

\* Profile.deserialize (over a StableContainer base)
Profile_deserialize(P, bytes, scope) ==
    LET idx == Profile_field_indices(P)
        o == Profile_o(P)
        num_prefix_bytes == IF o > 0 THEN BitvectorByteLength(o) ELSE 0
        got == ReadAt(bytes, 0, num_prefix_bytes)
        bits == IF o > 0 THEN BitvectorDeserialize(o, got) ELSE 0
        present == [q \in 1..Len(idx) |-> ~idx[q].fopt \/ BitGet(bits, OIndex(idx, q))]
        fixed == DeserializeFixed(idx, present, TRUE, bytes, 1,
                    [pos |-> num_prefix_bytes, fv |-> EmptyKwargs, dyn |-> <<>>,
                     fixed_size |-> 0, ok |-> TRUE])
        rest == DeserializeRest(fixed, bytes, scope - num_prefix_bytes)
    IN IF o > 0 /\ scope < num_prefix_bytes THEN Raise("ValueError")
       ELSE IF Len(got) < num_prefix_bytes \/ bits < 0 THEN Raise("Exception")
       ELSE IF ~rest.ok THEN Raise("Exception")
       ELSE Profile_new(P, rest.fv)

\* ------------------------------------------------------------- state machine
\* cls    the class in use: <<"S", i>> is StableClasses[i], <<"P", j>> ProfileClasses[j]
\* val    the backing of the value of cls, NoneVal before construction
\* base   for a Profile: the backing of the base-class value built from the same
\*        keyed field map and given the same successful assignments
\* stream what the last serialize of val wrote and returned
\* dec    the last deserialize: its input and its result
\* last   the last call and how it ended
\* Every call but deserialize discards the stream and the result of the one before;
\* deserialize reads the stream to its end, so that it is read once (by = "read").
ClassIds == {<<"S", i>> : i \in 1..Len(StableClasses)}
            \cup {<<"P", j>> : j \in 1..Len(ProfileClasses)}
IsStable == cls[1] = "S"
IsProfile == cls[1] = "P"
TheStable == StableClasses[cls[2]]
TheProfile == ProfileClasses[cls[2]]
BaseClass == IF IsStable THEN TheStable ELSE StableClasses[TheProfile.B]

NoStream == [by |-> "none", bytes |-> <<>>, ret |-> 0]
NoDec == [by |-> "none", as |-> 0, bytes |-> <<>>, scope |-> 0, tampered |-> FALSE,
          ok |-> FALSE, err |-> "", backing |-> NoneVal]
Call(op, r, key, value) ==
    [op |-> op, ok |-> r.ok, err |-> r.err, key |-> key, value |-> value]

\* what a caller passes: any declared key of the base or an undeclared one, with
\* None or a value of the field's type
CallerKeys == Keys(BaseClass.fields) \cup {UnknownKey}
CallerValues(key) ==
    IF key = UnknownKey THEN {NoneVal, Leaf(0)}
    ELSE LET ftyp == BaseClass.fields[KeyIndex(BaseClass.fields, key)].typ
         IN {NoneVal} \cup {coerce_view(ftyp, x) : x \in TypeValues(ftyp)}
CallerKwargs ==
    UNION {{kw \in [D -> UNION {CallerValues(k) : k \in D}] :
                \A k \in D : kw[k] \in CallerValues(k)} : D \in SUBSET CallerKeys}

Init ==
    /\ cls \in ClassIds
    /\ val = NoneVal
    /\ base = NoneVal
    /\ stream = NoStream
    /\ dec = NoDec
    /\ last = Call("init", Ok(NoneVal), "", NoneVal)

\* cls(**kwargs) for a StableContainer class
StableNew ==
    /\ IsStable /\ val = NoneVal
    /\ \E kwargs \in CallerKwargs :
         LET r == StableContainer_new(TheStable, kwargs)
         IN /\ val' = IF r.ok THEN r.backing ELSE val
            /\ last' = Call("new", r, "", NoneVal)
    /\ stream' = NoStream /\ dec' = NoDec
    /\ UNCHANGED <<cls, base>>

\* cls(**kwargs) for a Profile class, and cls.B(**kwargs) beside it
ProfileNew ==
    /\ IsProfile /\ val = NoneVal
    /\ \E kwargs \in CallerKwargs :
         LET r == Profile_new(TheProfile, kwargs)
             b == StableContainer_new(BaseClass, kwargs)
         IN /\ val' = IF r.ok THEN r.backing ELSE val
            /\ base' = IF r.ok THEN b.backing ELSE base
            /\ last' = Call("new", r, "", NoneVal)
    /\ stream' = NoStream /\ dec' = NoDec
    /\ UNCHANGED cls

\* value.key = v on a StableContainer value
StableSet ==
    /\ IsStable /\ val # NoneVal
    /\ \E key \in CallerKeys : \E value \in CallerValues(key) :
         LET r == StableContainer_setattr(TheStable, val, key, value)
         IN /\ val' = r.backing
            /\ last' = Call("set", r, key, value)
    /\ stream' = NoStream /\ dec' = NoDec
    /\ UNCHANGED <<cls, base>>

\* value.key = v on a Profile value; the base value gets the assignments that succeed
ProfileSet ==
    /\ IsProfile /\ val # NoneVal
    /\ \E key \in CallerKeys : \E value \in CallerValues(key) :
         LET r == Profile_setattr(TheProfile, val, key, value)
             b == StableContainer_setattr(BaseClass, base, key, value)
         IN /\ val' = r.backing
            /\ base' = IF r.ok THEN b.backing ELSE base
            /\ last' = Call("set", r, key, value)
    /\ stream' = NoStream /\ dec' = NoDec
    /\ UNCHANGED cls

\* value.key
StableGet ==
    /\ IsStable /\ val # NoneVal
    /\ \E key \in CallerKeys :
         LET r == StableContainer_getattr(TheStable, val, key)
         IN last' = Call("get", r, key, r.backing)
    /\ stream' = NoStream /\ dec' = NoDec
    /\ UNCHANGED <<cls, val, base>>

ProfileGet ==
    /\ IsProfile /\ val # NoneVal
    /\ \E key \in CallerKeys :
         LET r == Profile_getattr(TheProfile, val, key)
         IN last' = Call("get", r, key, r.backing)
    /\ stream' = NoStream /\ dec' = NoDec
    /\ UNCHANGED <<cls, val, base>>

\* value.serialize(stream) on an empty stream
StableSerialize ==
    /\ IsStable /\ val # NoneVal
    /\ LET w == StableContainer_serialize(TheStable, val)
       IN stream' = [by |-> "S", bytes |-> w.bytes, ret |-> w.ret]
    /\ dec' = NoDec
    /\ last' = Call("serialize", Ok(NoneVal), "", NoneVal)
    /\ UNCHANGED <<cls, val, base>>

ProfileSerialize ==
    /\ IsProfile /\ val # NoneVal
    /\ LET w == Profile_serialize(TheProfile, val)
       IN stream' = [by |-> "P", bytes |-> w.bytes, ret |-> w.ret]
    /\ dec' = NoDec
    /\ last' = Call("serialize", Ok(NoneVal), "", NoneVal)
    /\ UNCHANGED <<cls, val, base>>

\* The input of a deserialize: the stream as written with its length or less as
\* scope, or the stream with one bit of one byte flipped and its length as scope.
FlipBit(bytes, p, b) ==
    [bytes EXCEPT ![p] = IF BitGet(@, b) THEN @ - Pow(2, b) ELSE @ + Pow(2, b)]
Scopes(bytes) == {0, 1, Len(bytes) - 1, Len(bytes)} \cap 0..Len(bytes)
Inputs(bytes) ==
    {[bytes |-> bytes, scope |-> sc, tampered |-> FALSE] : sc \in Scopes(bytes)}
    \cup {[bytes |-> FlipBit(bytes, p, b), scope |-> Len(bytes), tampered |-> TRUE] :
            p \in 1..Len(bytes), b \in 0..MaxTamperBit}
Decoded(by, as, in, r) ==
    [by |-> by, as |-> as, bytes |-> in.bytes, scope |-> in.scope,
     tampered |-> in.tampered, ok |-> r.ok, err |-> r.err, backing |-> r.backing]

\* S2 has the capacity of S and S's fields, in place, as its first fields
Extends(S, S2) ==
    /\ S2.N = S.N
    /\ Len(S2.fields) >= Len(S.fields)
    /\ \A q \in 1..Len(S.fields) : S2.fields[q] = S.fields[q]

\* S2.deserialize(stream, scope), for the class of the value or one that extends it
StableDeserialize ==
    /\ IsStable /\ stream.by = "S"
    /\ \E i \in 1..Len(StableClasses) : \E in \in Inputs(stream.bytes) :
         /\ Extends(TheStable, StableClasses[i])
         /\ dec' = Decoded("S", i, in,
                     StableContainer_deserialize(StableClasses[i], in.bytes, in.scope))
    /\ last' = Call("deserialize", Ok(NoneVal), "", NoneVal)
    /\ stream' = [stream EXCEPT !.by = "read"]
    /\ UNCHANGED <<cls, val, base>>

\* cls.deserialize(stream, scope) for a Profile class
ProfileDeserialize ==
    /\ IsProfile /\ stream.by = "P"
    /\ \E in \in Inputs(stream.bytes) :
         dec' = Decoded("P", cls[2], in,
                   Profile_deserialize(TheProfile, in.bytes, in.scope))
    /\ last' = Call("deserialize", Ok(NoneVal), "", NoneVal)
    /\ stream' = [stream EXCEPT !.by = "read"]
    /\ UNCHANGED <<cls, val, base>>

\* cls.B.deserialize(stream, scope) on the bytes a Profile value wrote
BaseDeserialize ==
    /\ IsProfile /\ stream.by = "P"
    /\ LET in == [bytes |-> stream.bytes, scope |-> Len(stream.bytes), tampered |-> FALSE]
       IN dec' = Decoded("B", TheProfile.B, in,
                   StableContainer_deserialize(BaseClass, in.bytes, in.scope))
    /\ last' = Call("deserialize", Ok(NoneVal), "", NoneVal)
    /\ stream' = [stream EXCEPT !.by = "read"]
    /\ UNCHANGED <<cls, val, base>>

Next ==
    \/ StableNew \/ ProfileNew
    \/ StableSet \/ ProfileSet
    \/ StableGet \/ ProfileGet
    \/ StableSerialize \/ ProfileSerialize
    \/ StableDeserialize \/ ProfileDeserialize \/ BaseDeserialize

Spec == Init /\ [][Next]_vars

\* --------------------------------------------------------------------- claims
\* the field's value as a caller of the class reads it (a node, or NoneVal)
StableField(S, backing, key) == StableContainer_getattr(S, backing, key).backing
ProfileField(P, backing, key) ==
    LET idx == Profile_field_indices(P)
        q == KeyIndex(idx, key)
    IN stable_get(backing, idx[q].findex, idx[q].ftyp, StableClasses[P.B].N)
ProfileKeys(P) == Keys(P.fields)

\* every field the Profile declares as required is active
RequiredPresent(P, backing) ==
    \A q \in 1..Len(P.fields) :
        ~P.fields[q].opt => ProfileField(P, backing, P.fields[q].key) # NoneVal

\* the stream handed to deserialize is the one serialize wrote, whole
WholeStream == ~dec.tampered /\ dec.scope = Len(dec.bytes)

\* C1: a StableContainer value serialized and then deserialized by its own class,
\* with the number of bytes written as scope, comes back: the call succeeds, the
\* active-fields bitvector is the same and every field reads the same.
C1_StableRoundTrip ==
    (dec.by = "S" /\ dec.as = cls[2] /\ WholeStream) =>
        /\ dec.ok
        /\ stream.ret = Len(dec.bytes)
        /\ active_fields(dec.backing) = active_fields(val)
        /\ \A key \in Keys(TheStable.fields) :
             StableField(TheStable, dec.backing, key) = StableField(TheStable, val, key)

\* a round trip of a value with a fixed-length and a non-empty variable-length field
C1_Witness ==
    /\ dec.by = "S" /\ dec.as = cls[2] /\ WholeStream /\ dec.ok
    /\ \E k1, k2 \in Keys(TheStable.fields) :
         /\ StableField(TheStable, val, k1) # NoneVal
         /\ StableField(TheStable, val, k1)[1] = "L"
         /\ StableField(TheStable, val, k2) # NoneVal
         /\ StableField(TheStable, val, k2)[1] = "P"
         /\ StableField(TheStable, val, k2)[3] = Leaf(1)

\* the bytes of the present fields of a Profile value: fixed-length fields and
\* offsets, then the variable-length fields
ProfileDataSize(P, backing) ==
    LET idx == Profile_field_indices(P)
        part == [q \in 1..Len(idx) |->
            LET v == ProfileField(P, backing, idx[q].key)
            IN IF v = NoneVal THEN 0
               ELSE IF idx[q].ftyp.kind = "uint" THEN idx[q].ftyp.n
               ELSE OFFSET_BYTE_LENGTH + v[3][2]]
    IN SumOver(part, 1, Len(idx))

\* the places of the Optional[T] fields in the Profile's declaration, in order
RECURSIVE OptionalPlaces(_, _)
OptionalPlaces(P, q) ==
    IF q > Len(P.fields) THEN <<>>
    ELSE IF P.fields[q].opt THEN <<q>> \o OptionalPlaces(P, q + 1)
    ELSE OptionalPlaces(P, q + 1)

\* C2: a Profile value with every required field present, serialized and then
\* deserialized by its Profile class with the number of bytes written as scope,
\* comes back equal field by field; with o > 0 optional fields the stream starts
\* with ceil(o/8) bytes whose bit k says whether the k-th optional field of the
\* declaration is present, and with o = 0 it holds the data alone.
C2_ProfileRoundTrip ==
    (IsProfile /\ val # NoneVal /\ RequiredPresent(TheProfile, val)) =>
        /\ (dec.by = "P" /\ WholeStream) =>
              /\ dec.ok
              /\ stream.ret = Len(dec.bytes)
              /\ \A key \in ProfileKeys(TheProfile) :
                   ProfileField(TheProfile, dec.backing, key)
                     = ProfileField(TheProfile, val, key)
        /\ stream.by \in {"P", "read"} =>
              LET places == OptionalPlaces(TheProfile, 1)
                  o == Len(places)
                  nb == IF o = 0 THEN 0 ELSE (o + 7) \div 8
                  bits == DecodeLE(SubSeq(stream.bytes, 1, nb))
              IN /\ Len(stream.bytes) = nb + ProfileDataSize(TheProfile, val)
                 /\ bits < Pow(2, o)
                 /\ \A k \in 1..o :
                      BitGet(bits, k - 1)
                        <=> ProfileField(TheProfile, val,
                                         TheProfile.fields[places[k]].key) # NoneVal

\* a round trip of a Profile value whose first optional field is absent and whose
\* second is present, the optional fields being declared against the base's order
C2_Witness ==
    /\ cls = <<"P", 2>> /\ dec.by = "P" /\ WholeStream /\ dec.ok
    /\ ProfileField(TheProfile, val, "c") = NoneVal
    /\ ProfileField(TheProfile, val, "a") # NoneVal
    /\ ProfileField(TheProfile, val, "b") = coerce_view(ByteList1, <<1>>)

\* the leaf of the data subtree at position i
DataLeaf(backing, n, i) == getter(get_left(backing), Pow(2, get_depth(n)) + i)
LeafPositions(n) == 0..(Pow(2, get_depth(n)) - 1)

\* C3 as stated: in a StableContainer value, leaf i of the data subtree is
\* zero_node(0) if and only if bit i of the active-fields bitvector is 0.
C3_PresenceCoherence_Iff ==
    (IsStable /\ val # NoneVal) =>
        \A i \in LeafPositions(TheStable.N) :
            DataLeaf(val, TheStable.N, i) = zero_node(0)
              <=> ~BitGet(active_fields(val), i)

\* C3 as amended: leaf i is zero_node(0) whenever bit i is 0; when bit i is 1, i is
\* a declared field and the leaf is the node of its value, which is zero_node(0)
\* only for a value whose own node is the zero chunk (a uint that is 0).
C3_PresenceCoherence ==
    (IsStable /\ val # NoneVal) =>
        \A i \in LeafPositions(TheStable.N) :
            /\ ~BitGet(active_fields(val), i) => DataLeaf(val, TheStable.N, i) = zero_node(0)
            /\ BitGet(active_fields(val), i) =>
                 /\ i < Len(TheStable.fields)
                 /\ DataLeaf(val, TheStable.N, i) = zero_node(0)
                      => TheStable.fields[i + 1].typ.kind = "uint"
                 /\ DataLeaf(val, TheStable.N, i)
                      \in {coerce_view(TheStable.fields[i + 1].typ, x) :
                             x \in TypeValues(TheStable.fields[i + 1].typ)}

\* None has just been assigned to a field while another field holds a value
C3_Witness ==
    /\ IsStable /\ val # NoneVal
    /\ last.op = "set" /\ last.ok /\ last.value = NoneVal
    /\ \E i \in LeafPositions(TheStable.N) :
         BitGet(active_fields(val), i) /\ DataLeaf(val, TheStable.N, i) # zero_node(0)

\* C4: every Profile value has the active bit of each required field set.
C4_RequiredActive ==
    (IsProfile /\ val # NoneVal) => RequiredPresent(TheProfile, val)

\* C5: the bytes of a value of a class with fewer than N fields deserialize under
\* every class of the same capacity that has the same fields in place as its first
\* fields: the call succeeds, those fields read the same, the later ones are absent.
C5_ForwardCompatible ==
    (dec.by = "S" /\ WholeStream /\ Len(TheStable.fields) < TheStable.N) =>
        /\ dec.ok
        /\ \A q \in 1..Len(StableClasses[dec.as].fields) :
             LET key == StableClasses[dec.as].fields[q].key
             IN StableField(StableClasses[dec.as], dec.backing, key)
                  = IF q <= Len(TheStable.fields) THEN StableField(TheStable, val, key)
                    ELSE NoneVal

\* bytes of a value with all its fields present, read by a class with one more field
C5_Witness ==
    /\ dec.by = "S" /\ WholeStream /\ dec.ok
    /\ Len(StableClasses[dec.as].fields) > Len(TheStable.fields)
    /\ \A key \in Keys(TheStable.fields) : StableField(TheStable, val, key) # NoneVal

\* C6: a Profile value and the value of its base built from the same keyed field
\* map, after the same successful assignments, have the same backing: the same data
\* subtree and the same active-fields node, hence the same hash tree root.
C6_MerkleizationEqual ==
    (IsProfile /\ val # NoneVal) =>
        /\ get_left(val) = get_left(base)
        /\ get_right(val) = get_right(base)
        /\ val = base

\* an assignment to the Profile's first declared field, which is the base's third
C6_Witness ==
    /\ cls = <<"P", 2>> /\ val # NoneVal
    /\ last.op = "set" /\ last.ok /\ last.key = "c" /\ last.value # NoneVal
    /\ ProfileField(TheProfile, val, "b") # NoneVal

\* C7 as stated: the bytes Profile.serialize writes for a value with every required
\* field present deserialize under the base class to a value equal to the original
\* on every field the Profile declares.
C7_BaseReadsProfileBytes ==
    (dec.by = "B" /\ RequiredPresent(TheProfile, val)) =>
        /\ dec.ok
        /\ \A key \in ProfileKeys(TheProfile) :
             StableField(BaseClass, dec.backing, key) = ProfileField(TheProfile, val, key)

\* the Profile declares the first o fields of its base, in the base's order, all as
\* Optional[T], and Bitvector[o] is as long as the base's Bitvector[N]
DeclaresBasePrefixAsOptional(P) ==
    /\ \A q \in 1..Len(P.fields) :
         P.fields[q].opt /\ P.fields[q].key = StableClasses[P.B].fields[q].key
    /\ (Len(P.fields) + 7) \div 8 = (StableClasses[P.B].N + 7) \div 8

\* C7 as amended: the same, for a Profile that declares the first o fields of its
\* base in the base's order, all optional, with ceil(o/8) = ceil(N/8).
C7_BaseReadsAlignedProfileBytes ==
    (dec.by = "B" /\ RequiredPresent(TheProfile, val)
                  /\ DeclaresBasePrefixAsOptional(TheProfile)) =>
        /\ dec.ok
        /\ \A key \in ProfileKeys(TheProfile) :
             StableField(BaseClass, dec.backing, key) = ProfileField(TheProfile, val, key)

\* the base class has read the bytes of such a Profile value with both fields present
C7_Witness ==
    /\ dec.by = "B" /\ DeclaresBasePrefixAsOptional(TheProfile) /\ dec.ok
    /\ \A key \in ProfileKeys(TheProfile) : ProfileField(TheProfile, val, key) # NoneVal

\* C8: the number of bytes serialize writes lies between the class's
\* min_byte_length() and max_byte_length().
C8_SizeBounds ==
    /\ (IsStable /\ stream.by \in {"S", "read"}) =>
          /\ StableContainer_min_byte_length(TheStable) <= Len(stream.bytes)
          /\ Len(stream.bytes) <= StableContainer_max_byte_length(TheStable)
    /\ (IsProfile /\ stream.by \in {"P", "read"}) =>
          /\ Profile_min_byte_length(TheProfile) <= Len(stream.bytes)
          /\ Len(stream.bytes) <= Profile_max_byte_length(TheProfile)

\* the least D with 2^D >= n
CeilLog2(n) == CHOOSE D \in 0..n : Pow(2, D) >= n /\ (D = 0 \/ Pow(2, D - 1) < n)

\* C9: key_to_static_gindex of the field at position i is 2^(D+1) + i with
\* D = ceil(log2(N)), the same in every class of capacity N that has position i;
\* the node there, from the root, is the leaf that get reads and set writes; and
\* `__active_fields__` is gindex 3, where the active-fields node is.
C9_StableGindex ==
    (IsStable /\ val # NoneVal) =>
        /\ StableContainer_key_to_static_gindex(TheStable, ActiveFieldsKey) = 3
        /\ getter(val, 3) = Leaf(active_fields(val))
        /\ \A q \in 1..Len(TheStable.fields) :
             LET key == TheStable.fields[q].key
                 g == StableContainer_key_to_static_gindex(TheStable, key)
             IN /\ g = Pow(2, CeilLog2(TheStable.N) + 1) + (q - 1)
                /\ getter(val, g) = DataLeaf(val, TheStable.N, q - 1)
                /\ StableField(TheStable, val, key) \in {NoneVal, getter(val, g)}
                /\ \A i \in 1..Len(StableClasses) :
                     (StableClasses[i].N = TheStable.N /\ q <= Len(StableClasses[i].fields))
                       => StableContainer_key_to_static_gindex(
                              StableClasses[i], StableClasses[i].fields[q].key) = g
        /\ (last.op = "set" /\ last.ok) =>
             getter(val, StableContainer_key_to_static_gindex(TheStable, last.key))
               = IF last.value = NoneVal THEN zero_node(0) ELSE last.value
        /\ (last.op = "get" /\ last.ok /\ last.value # NoneVal) =>
             getter(val, StableContainer_key_to_static_gindex(TheStable, last.key))
               = last.value

\* a value has been assigned to the second field of the class of capacity 9
C9_Witness ==
    /\ IsStable /\ val # NoneVal /\ TheStable.N = 9
    /\ last.op = "set" /\ last.ok /\ last.key = "b" /\ last.value # NoneVal

\* the active-fields prefix of the bytes handed to a class's deserialize
InputPrefixBits(S) == DecodeLE(SubSeq(dec.bytes, 1, BitvectorByteLength(S.N)))

\* C10: StableContainer.deserialize raises and yields no value when the input's
\* active-fields prefix has a bit set at an index from field_count to N - 1, and when
\* scope is smaller than ceil(N/8).
C10_UnknownFieldRejected ==
    dec.by \in {"S", "B"} =>
        LET S == StableClasses[dec.as]
            nb == (S.N + 7) \div 8
        IN (\/ dec.scope < nb
            \/ /\ Len(dec.bytes) >= nb
               /\ \E i \in Len(S.fields)..(S.N - 1) : BitGet(InputPrefixBits(S), i))
           => (~dec.ok /\ dec.backing = NoneVal)

\* an input whose prefix has a bit of an undeclared index set, with room for the prefix
C10_Witness ==
    /\ dec.by = "S" /\ dec.scope >= BitvectorByteLength(StableClasses[dec.as].N)
    /\ Len(dec.bytes) > BitvectorByteLength(StableClasses[dec.as].N)
    /\ \E i \in Len(StableClasses[dec.as].fields)..(StableClasses[dec.as].N - 1) :
         BitGet(InputPrefixBits(StableClasses[dec.as]), i)
    /\ ~dec.ok

\* what the field loop of the last deserialize made of its input: the offsets it
\* recorded in dyn and the fixed_size it counted (ok = FALSE when the prefix or a
\* fixed-length read failed before the offsets were checked)
InputFixedSection ==
    IF dec.by = "P"
    THEN LET P == ProfileClasses[dec.as]
             idx == Profile_field_indices(P)
             o == Profile_o(P)
             nb == IF o > 0 THEN BitvectorByteLength(o) ELSE 0
             bits == IF o > 0 THEN BitvectorDeserialize(o, ReadAt(dec.bytes, 0, nb)) ELSE 0
         IN IF dec.scope < nb \/ Len(dec.bytes) < nb \/ bits < 0
            THEN [ok |-> FALSE, dyn |-> <<>>, fixed_size |-> 0]
            ELSE DeserializeFixed(idx,
                    [q \in 1..Len(idx) |-> ~idx[q].fopt \/ BitGet(bits, OIndex(idx, q))],
                    TRUE, dec.bytes, 1,
                    [pos |-> nb, fv |-> EmptyKwargs, dyn |-> <<>>, fixed_size |-> 0,
                     ok |-> TRUE])
    ELSE LET S == StableClasses[dec.as]
             idx == field_indices(S)
             nb == BitvectorByteLength(S.N)
             bits == BitvectorDeserialize(S.N, ReadAt(dec.bytes, 0, nb))
         IN IF dec.scope < nb \/ Len(dec.bytes) < nb \/ bits < 0
            THEN [ok |-> FALSE, dyn |-> <<>>, fixed_size |-> 0]
            ELSE DeserializeFixed(idx,
                    [q \in 1..Len(idx) |-> BitGet(bits, idx[q].findex)],
                    FALSE, dec.bytes, 1,
                    [pos |-> nb, fv |-> EmptyKwargs, dyn |-> <<>>, fixed_size |-> 0,
                     ok |-> TRUE])

\* C11: deserialize accepts an input with an active variable-length field only if
\* the offset of the first of them equals fixed_size.
C11_FirstOffsetEqualsFixedSize ==
    (dec.by \in {"S", "P"} /\ dec.ok /\ Len(InputFixedSection.dyn) > 0) =>
        InputFixedSection.dyn[1].offset = InputFixedSection.fixed_size

\* the last call was the assignment of None to a field the Profile declares required
SetNoneToRequired(l) ==
    /\ IsProfile /\ l.op = "set" /\ l.value = NoneVal
    /\ \E q \in 1..Len(TheProfile.fields) :
         TheProfile.fields[q].key = l.key /\ ~TheProfile.fields[q].opt

\* the last call was an assignment to a name the class does not declare
SetUndeclared(l) ==
    /\ l.op = "set"
    /\ l.key \notin (IF IsProfile THEN ProfileKeys(TheProfile) ELSE Keys(TheStable.fields))

\* C12: assigning None to a field a Profile declares required raises ValueError, and
\* assigning to an undeclared name raises; both leave the value's backing (data
\* subtree and active-fields bitvector) as it was before the call.
C12_FailedSetKeepsBacking ==
    [][/\ SetNoneToRequired(last') => (~last'.ok /\ last'.err = "ValueError")
       /\ SetUndeclared(last') => (~last'.ok /\ last'.err = "AttributeError")
       /\ (last'.op = "set" /\ ~last'.ok) =>
            /\ val' = val
            /\ get_left(val') = get_left(val)
            /\ get_right(val') = get_right(val)]_vars

\* None was assigned to a required field that holds a value while another field is
\* absent, and the call raised
C12_Witness ==
    /\ SetNoneToRequired(last) /\ ~last.ok /\ last.err = "ValueError"
    /\ ProfileField(TheProfile, val, last.key) \notin {NoneVal, zero_node(0)}
    /\ \E key \in ProfileKeys(TheProfile) : ProfileField(TheProfile, val, key) = NoneVal

\* the names the class of the value declares, and what reading one of them gives
DeclaredKeys == IF IsProfile THEN ProfileKeys(TheProfile) ELSE Keys(TheStable.fields)
GetResult(backing, key) ==
    IF IsProfile THEN Profile_getattr(TheProfile, backing, key)
    ELSE StableContainer_getattr(TheStable, backing, key)
\* the position in the base of a declared name
PositionOf(key) == field_indices(BaseClass)[KeyIndex(field_indices(BaseClass), key)].findex

\* C13: a successful assignment to the field at position i changes at most leaf i of
\* the data subtree and bit i of the active-fields bitvector: every other leaf and bit
\* is unchanged, a get of any other field gives what it gave before, and a get of
\* field i gives the assigned value (None when None was assigned).
C13_SetFrame ==
    [][(last'.op = "set" /\ last'.ok) =>
          LET i == PositionOf(last'.key)
          IN /\ \A j \in LeafPositions(BaseClass.N) \ {i} :
                   DataLeaf(val', BaseClass.N, j) = DataLeaf(val, BaseClass.N, j)
             /\ \A j \in (0..(BaseClass.N - 1)) \ {i} :
                   BitGet(active_fields(val'), j) = BitGet(active_fields(val), j)
             /\ BitSet(active_fields(val'), i, FALSE) = BitSet(active_fields(val), i, FALSE)
             /\ \A key \in DeclaredKeys \ {last'.key} :
                   GetResult(val', key) = GetResult(val, key)
             /\ GetResult(val', last'.key) = Ok(last'.value)]_vars

\* an assignment succeeded on a value that holds another field with a non-zero
\* content and has a third position absent
C13_Witness ==
    /\ last.op = "set" /\ last.ok
    /\ \E key \in DeclaredKeys \ {last.key} :
         /\ GetResult(val, key).ok
         /\ GetResult(val, key).backing \notin {NoneVal, zero_node(0)}
    /\ \E j \in (0..(BaseClass.N - 1)) \ {PositionOf(last.key)} :
         ~BitGet(active_fields(val), j)

\* The layout of the data section of a Profile value, field by field in declared
\* order: what a present field puts in the side buffer (nothing for a fixed-size
\* field), and what it puts in the fixed section (its bytes, or its offset).
VariablePart(P, backing, q) ==
    LET f == Profile_field_indices(P)[q]
        v == ProfileField(P, backing, f.key)
    IN IF v = NoneVal \/ f.ftyp.kind = "uint" THEN <<>> ELSE ViewSerialize(f.ftyp, v)

RECURSIVE SideBufferUpTo(_, _, _)
SideBufferUpTo(P, backing, q) ==
    IF q = 0 THEN <<>>
    ELSE SideBufferUpTo(P, backing, q - 1) \o VariablePart(P, backing, q)

FixedSectionSize(P, backing) ==
    LET idx == Profile_field_indices(P)
        part == [q \in 1..Len(idx) |->
            IF ProfileField(P, backing, idx[q].key) = NoneVal THEN 0
            ELSE IF idx[q].ftyp.kind = "uint" THEN idx[q].ftyp.n
            ELSE OFFSET_BYTE_LENGTH]
    IN SumOver(part, 1, Len(idx))

FixedPart(P, backing, q) ==
    LET f == Profile_field_indices(P)[q]
        v == ProfileField(P, backing, f.key)
    IN IF v = NoneVal THEN <<>>
       ELSE IF f.ftyp.kind = "uint" THEN ViewSerialize(f.ftyp, v)
       ELSE EncodeLE(FixedSectionSize(P, backing) + Len(SideBufferUpTo(P, backing, q - 1)),
                     OFFSET_BYTE_LENGTH)

RECURSIVE FixedSectionUpTo(_, _, _)
FixedSectionUpTo(P, backing, q) ==
    IF q = 0 THEN <<>>
    ELSE FixedSectionUpTo(P, backing, q - 1) \o FixedPart(P, backing, q)

\* the bytes of the stream after the optional-fields prefix
WrittenDataSection ==
    LET o == Profile_o(TheProfile)
        nb == IF o = 0 THEN 0 ELSE (o + 7) \div 8
    IN SubSeq(stream.bytes, nb + 1, Len(stream.bytes))

\* C14: for a Profile value with every required field present, the bytes serialize
\* writes after the optional-fields prefix are the fixed section followed by the whole
\* side buffer of the present variable-length fields; each offset is the fixed-section
\* size plus the size of the variable-length fields serialized before it, counted from
\* the start of the data section; the integer returned is the number of bytes written.
C14_WholeVariableSection ==
    (IsProfile /\ stream.by = "P" /\ RequiredPresent(TheProfile, val)) =>
        LET np == Len(TheProfile.fields)
        IN /\ WrittenDataSection = FixedSectionUpTo(TheProfile, val, np)
                                     \o SideBufferUpTo(TheProfile, val, np)
           /\ Len(FixedSectionUpTo(TheProfile, val, np)) = FixedSectionSize(TheProfile, val)
           /\ stream.ret = Len(stream.bytes)

\* a Profile with an optional-fields prefix wrote a value with two non-empty
\* variable-length fields
C14_Witness ==
    /\ IsProfile /\ stream.by = "P" /\ RequiredPresent(TheProfile, val)
    /\ Profile_o(TheProfile) > 0
    /\ Cardinality({q \in 1..Len(TheProfile.fields) :
                      Len(VariablePart(TheProfile, val, q)) > 0}) >= 2
    /\ Len(stream.bytes) > Len(WrittenDataSection)

====
